---- MODULE Spec2Model ----
(***************************************************************************)
(* Verification model of the Kanji Alive MCP server.                       *)
(*                                                                         *)
(*   - the HTTP gateway of index.ts: the session registry (sessions,       *)
(*     sessionLastAccess), the POST / GET / DELETE handlers of /mcp, the   *)
(*     periodic expiry sweep and the shutdown handler;                     *)
(*   - the outbound API client of api/client.ts: retry condition, retry    *)
(*     budget and the axios-retry loop that drives them.                   *)
(*                                                                         *)
(* A handler is split into one action per suspension point (await).  The   *)
(* prefix of the POST handler up to the session lookup (format check and   *)
(* await c.req.json()) reads no shared state, so it is taken as one step   *)
(* with the lookup.  The part of a handler that runs before its first      *)
(* await on a transport is given by operators of the state and the call    *)
(* (post, get, delete: the branch taken and the response of a branch that  *)
(* returns at once; postRegistry, getRegistry, deleteRegistry: the maps    *)
(* and transports it leaves), which the actions apply.                     *)
(***************************************************************************)
EXTENDS Integers, Sequences, FiniteSets, Bags, TLC

(***************************************************************************)
(* Bounds of the model.                                                    *)
(***************************************************************************)
\* transports (initialize calls) ever created
MaxSessions == 2
\* handlers suspended at an await at the same time
MaxInFlight == 2
\* clock steps of TimeStepMs the model lets pass
MaxClock == 2
\* close() calls on one transport after which no further DELETE is taken
MaxCloses == 2
\* shutdown signals delivered
MaxSignals == 2

(***************************************************************************)
(* Program constants.                                                      *)
(***************************************************************************)
SESSION_TIMEOUT_MS == 30 * 60 * 1000
SESSION_CLEANUP_INTERVAL_MS == 5 * 60 * 1000
\* granularity of Date.now() in the model: the timeout itself, so that a
\* difference of exactly SESSION_TIMEOUT_MS (the boundary of >) is reachable
TimeStepMs == SESSION_TIMEOUT_MS
\* responseStatus of a fresh mock response
ShimStatus == 200
INVALID_REQUEST == -32600
INVALID_SESSION == -32000
INTERNAL_ERROR == -32603
\* a response body that is no JSON-RPC error object
NoCode == 0
\* constants of the API client
MAX_RETRIES == 3
\* seconds
MAX_BACKOFF == 30
\* 0.5 seconds, as a fraction
INITIAL_BACKOFF == [num |-> 1, den |-> 2]
\* the factor of "Convert to milliseconds"
MsPerSecond == 1000
\* largest retry number the delay functions are evaluated for on their own
MaxRetryNumber == 8

(***************************************************************************)
(* Session id strings.  The state holds a header value by name; Text gives *)
(* its characters, which is what the format check reads.                   *)
(***************************************************************************)
Rep(c, n) == [i \in 1..n |-> c]

Digit(k) == <<"0", "1", "2", "3", "4", "5", "6", "7", "8", "9">>[k + 1]

HexDigits ==
    {"0", "1", "2", "3", "4", "5", "6", "7", "8", "9",
     "a", "b", "c", "d", "e", "f", "A", "B", "C", "D", "E", "F"}

\* /^[0-9a-f]{8}-[0-9a-f]{4}-4[0-9a-f]{3}-[89ab][0-9a-f]{3}-[0-9a-f]{12}$/i
MatchesUuidV4(s) ==
    /\ Len(s) = 36
    /\ \A i \in 1..36 :
          IF i \in {9, 14, 19, 24} THEN s[i] = "-"
          ELSE IF i = 15 THEN s[i] = "4"
          ELSE IF i = 20 THEN s[i] \in {"8", "9", "a", "b", "A", "B"}
          ELSE s[i] \in HexDigits

\* the characters of the k-th value randomUUID() returns: distinct
\* lower-case version 4 UUIDs
Uuid(k) ==
    Rep("0", 8) \o <<"-">> \o Rep("0", 4) \o <<"-", "4">> \o Rep("0", 3)
      \o <<"-", "8">> \o Rep("0", 3) \o <<"-">> \o Rep("0", 11) \o <<Digit(k)>>

UuidNames ==
    <<"uuid1", "uuid2", "uuid3", "uuid4", "uuid5", "uuid6", "uuid7", "uuid8",
      "uuid9">>

\* 36 characters, version digit 1 instead of 4
Version1Uuid ==
    Rep("0", 8) \o <<"-">> \o Rep("0", 4) \o <<"-", "1">> \o Rep("0", 3)
      \o <<"-", "8">> \o Rep("0", 3) \o <<"-">> \o Rep("0", 12)

NotAUuid == <<"n", "o", "t", "-", "a", "-", "u", "u", "i", "d">>

\* c.req.header('mcp-session-id') when the header is absent
Undefined == "undefined"

\* the characters of a header value
Text(h) ==
    CASE h = "empty" -> <<>>
      [] h = "not-a-uuid" -> NotAUuid
      [] h = "version1" -> Version1Uuid
      [] OTHER -> Uuid(CHOOSE k \in 1..Len(UuidNames) : UuidNames[k] = h)

\* function isValidSessionId(id: string | undefined): boolean
isValidSessionIdOf(h) ==
    IF h = Undefined \/ Len(Text(h)) = 0 \/ Len(Text(h)) # 36 THEN FALSE
    ELSE MatchesUuidV4(Text(h))

IssuedUuids == {UuidNames[k] : k \in 1..MaxSessions}

\* the mcp-session-id headers a caller may send: none, the empty string,
\* two malformed ones, and every id the server may issue
HeaderInputs == {Undefined, "empty", "not-a-uuid", "version1"} \cup IssuedUuids

\* what await c.req.json() yields: an initialize message, another JSON
\* value, or a rejection (the body is no JSON)
BodyInputs == {"initialize", "other", "unparseable"}

isInitializeRequest(body) == body = "initialize"

\* the two tests the handlers make of a header value, tabulated over the
\* inputs: JavaScript truthiness of string | undefined, and the format check
TruthyTable == [h \in HeaderInputs |-> h # Undefined /\ Len(Text(h)) > 0]

Truthy(h) == TruthyTable[h]

isValidSessionIdTable == [h \in HeaderInputs |-> isValidSessionIdOf(h)]

isValidSessionId(h) == isValidSessionIdTable[h]

(***************************************************************************)
(* State.                                                                  *)
(***************************************************************************)
VARIABLES
    sessions,           \* Map<string, transport>: session id -> transport
    sessionLastAccess,  \* Map<string, number>: session id -> Date.now()
    now,                \* Date.now(), in milliseconds
    transports,         \* the transports constructed so far, in order
    uuidCalls,          \* calls of randomUUID() so far
    inflight,           \* the handlers suspended at an await
    phase,              \* "running", "closing" (handleShutdown awaits), "exited"
    shutdowns,          \* per handleShutdown call: is allSettled still awaited
    deletedOk,          \* history: ids a DELETE has answered success for
    swept               \* history: ids the expiry sweep has removed

gatewayVars ==
    <<sessions, sessionLastAccess, now, transports, uuidCalls, inflight,
      phase, shutdowns, deletedOk, swept>>

\* the outbound API client (one call at a time)
VARIABLES
    call,               \* "idle", "pending", "waiting", "resolved", "rejected"
    attempts,           \* outcomes of the upstream attempts of the call
    retryCount,         \* axios-retry's count of retries of the call
    retryLog,           \* "Retry attempt n/MAX_RETRIES" entries of the call
    surfaced            \* what the call gave its caller

\* ... its waits and what the API function makes of the response
VARIABLES
    lastWait,           \* milliseconds of the retry delay last scheduled
    apiFn,              \* the function that made the call
    responseData,       \* the body of the response the call resolved with
    apiResult           \* "none", "returned" or "threw"

\* the delay functions evaluated on their own
VARIABLES
    delayProbe,         \* the arguments
    delayResult         \* the value returned and the entry logged

\* the tool that made the call
VARIABLES
    toolResult          \* the ToolResult the tool returned, once it has

clientVars ==
    <<call, attempts, retryCount, retryLog, surfaced, lastWait, apiFn,
      responseData, apiResult, delayProbe, delayResult, toolResult>>

\* one response shim (createMockResponse) and the call it was made for
VARIABLES
    shim,               \* the closure state of createMockResponse and mock's fields
    atFinish,           \* history: getResponse() as it was when end was first called
    handled,            \* await transport.handleRequest: "pending", "resolved", "rejected"
    httpResponse        \* the Response the handler returned, once it has

shimVars == <<shim, atFinish, handled, httpResponse>>

vars == <<gatewayVars, shutdowns, clientVars, shimVars>>

NoTransport == 0

\* a suspended handler: where it waits, its call, the transport it holds
Handler(pc, kind, h, body, t, closeOk) ==
    [pc |-> pc, kind |-> kind, sid |-> h, body |-> body, transport |-> t,
     closeOk |-> closeOk]

\* an HTTP response: its status and the code of its JSON-RPC error object
Answer(status, code) == [status |-> status, code |-> code]

(***************************************************************************)
(* Map operations.                                                         *)
(***************************************************************************)
MapHas(m, k) == k \in DOMAIN m

\* variant: the entry of some key, whichever it is
MapGetAny(m, k) == m[CHOOSE x \in DOMAIN m : TRUE]

MapGet(m, k) == m[k]

MapSet(m, k, v) == [x \in DOMAIN m \cup {k} |-> IF x = k THEN v ELSE m[x]]

MapDelete(m, k) == [x \in DOMAIN m \ {k} |-> m[x]]

EmptyMap == [x \in {} |-> 0]

(***************************************************************************)
(* The transport (StreamableHTTPServerTransport) as the gateway uses it.   *)
(***************************************************************************)
\* variant: the transport is handed on without a close hook
NewTransportNoHook ==
    [sessionId |-> Undefined, onclose |-> FALSE, connected |-> FALSE,
     closeCalls |-> 0]

\* new StreamableHTTPServerTransport({...}); transport.onclose = ...
NewTransport ==
    [sessionId |-> Undefined, onclose |-> TRUE, connected |-> FALSE,
     closeCalls |-> 0]

\* how a call of transport.close() ends: it resolves after running the
\* close callback, or rejects before or after running it
CloseOutcomes == {"ok", "throwBefore", "throwAfter"}

CloseResolves(outcome) == outcome = "ok"

CloseRunsOnclose(outcome) == outcome \in {"ok", "throwAfter"}

\* the registry as the handlers and loops thread it
Registry(s, a, trs) == [sessions |-> s, lastAccess |-> a, transports |-> trs]

\* variant: the close hook drops the id from the session map only
oncloseSessionsOnly(reg, t) ==
    LET sid == reg.transports[t].sessionId
    IN  IF Truthy(sid)
        THEN [reg EXCEPT !.sessions = MapDelete(@, sid)]
        ELSE reg

\* transport.onclose: drops the transport's own session id from both maps
onclose(reg, t) ==
    LET sid == reg.transports[t].sessionId
    IN  IF Truthy(sid)
        THEN [reg EXCEPT !.sessions = MapDelete(@, sid),
                         !.lastAccess = MapDelete(@, sid)]
        ELSE reg

\* the synchronous part of transport.close()
TransportClose(reg, t, outcome) ==
    LET counted == [reg EXCEPT !.transports[t].closeCalls = @ + 1]
    IN  IF CloseRunsOnclose(outcome) /\ counted.transports[t].onclose
        THEN onclose(counted, t)
        ELSE counted

Current == Registry(sessions, sessionLastAccess, transports)

SetRegistry(reg) ==
    /\ sessions' = reg.sessions
    /\ sessionLastAccess' = reg.lastAccess
    /\ transports' = reg.transports

\* the handlers are a bag: two calls alike may be suspended at once
Suspended == BagToSet(inflight)

Suspend(r) == inflight (+) SetToBag({r})

Resume(r) == inflight (-) SetToBag({r})

CanSuspend == BagCardinality(inflight) < MaxInFlight

Running == phase # "exited"

(***************************************************************************)
(* Init: the module has loaded, no session, no handler running.            *)
(***************************************************************************)
GatewayInit ==
    /\ sessions = EmptyMap
    /\ sessionLastAccess = EmptyMap
    /\ now = 0
    /\ transports = <<>>
    /\ uuidCalls = 0
    /\ inflight = EmptyBag
    /\ phase = "running"
    /\ shutdowns = <<>>
    /\ deletedOk = {}
    /\ swept = {}

(***************************************************************************)
(* app.post('/mcp'), up to its first response or await on the transport.   *)
(* path names the branch taken; answer is the response of a branch that    *)
(* returns at once; lookedUp tells whether sessions.has was evaluated;     *)
(* transport is the transport the call is handed to.                       *)
(***************************************************************************)
Entry(path, answer, lookedUp, t) ==
    [path |-> path, answer |-> answer, lookedUp |-> lookedUp, transport |-> t]

Pending == Answer(0, NoCode)

\* variant: an initialize message starts a session whatever id it carries
postInitializesAnyway(h, body) ==
    IF Truthy(h) /\ ~isValidSessionId(h)
    THEN Entry("format", Answer(400, INVALID_REQUEST), FALSE, NoTransport)
    ELSE IF body = "unparseable"
    THEN Entry("catch", Answer(500, INTERNAL_ERROR), FALSE, NoTransport)
    ELSE IF Truthy(h) /\ MapHas(sessions, h)
    THEN Entry("reuse", Pending, TRUE, MapGet(sessions, h))
    ELSE IF isInitializeRequest(body)
    THEN Entry("initialize", Pending, Truthy(h), Len(transports) + 1)
    ELSE Entry("nosession", Answer(400, INVALID_SESSION), Truthy(h),
               NoTransport)

post(h, body) ==
    IF Truthy(h) /\ ~isValidSessionId(h)
    THEN Entry("format", Answer(400, INVALID_REQUEST), FALSE, NoTransport)
    ELSE IF body = "unparseable"
    THEN Entry("catch", Answer(500, INTERNAL_ERROR), FALSE, NoTransport)
    ELSE IF Truthy(h) /\ MapHas(sessions, h)
    THEN Entry("reuse", Pending, TRUE, MapGet(sessions, h))
    ELSE IF ~Truthy(h) /\ isInitializeRequest(body)
    THEN Entry("initialize", Pending, Truthy(h), Len(transports) + 1)
    ELSE Entry("nosession", Answer(400, INVALID_SESSION), Truthy(h),
               NoTransport)

\* the registry after that part of the handler
postRegistry(h, body) ==
    LET e == post(h, body)
    IN  IF e.path = "reuse"
        THEN [Current EXCEPT !.lastAccess = MapSet(@, h, now)]
        ELSE IF e.path = "initialize"
        THEN [Current EXCEPT !.transports = Append(@, NewTransport)]
        ELSE Current

\* where the handler waits next: on transport.handleRequest (reuse) or on
\* mcpServer.connect (initialization)
postHandler(h, body) ==
    LET e == post(h, body)
    IN  Handler(IF e.path = "reuse" THEN "handling" ELSE "connecting",
                "POST", h, body, e.transport, TRUE)

Suspends(e) == e.answer = Pending

(***************************************************************************)
(* app.use('/mcp', bodyLimit({maxSize: 1024 * 1024, onError})) in front of *)
(* the POST handler.  A body is within the limit, or over it with a        *)
(* Content-Length header that says so, or over it and sent chunked, so     *)
(* that its size shows only while it is read.                              *)
(***************************************************************************)
BodySizes == {"within", "overDeclared", "overStreamed"}

\* the middleware compares a declared Content-Length with maxSize and calls
\* onError; a body without one is wrapped in a counting stream and the
\* handler is called
bodyLimit(size) == IF size = "overDeclared" THEN "onError" ELSE "next"

\* await c.req.json() in the handler: reading the counting stream of a body
\* over the limit rejects, as reading a body that is no JSON does
json(body, size) == IF size = "overStreamed" THEN "unparseable" ELSE body

\* middleware and handler together; the rejection of c.req.json() is caught
\* by the handler itself, so the middleware sees no error after next()
postCall(h, body, size) ==
    IF bodyLimit(size) = "onError"
    THEN Entry("limit", Answer(413, INVALID_REQUEST), FALSE, NoTransport)
    ELSE post(h, json(body, size))

postCallRegistry(h, body, size) ==
    IF bodyLimit(size) = "onError" THEN Current
    ELSE postRegistry(h, json(body, size))

\* the POST requests taken: what is in a body over the limit makes no
\* difference to either operator above
PostInputs ==
    {<<body, "within">> : body \in BodyInputs}
        \cup {<<"other", size>> : size \in BodySizes \ {"within"}}

Post(h, body, size) ==
    /\ Running
    /\ Suspends(postCall(h, body, size)) => CanSuspend
    /\ postCall(h, body, size).path = "initialize" => Len(transports) < MaxSessions
    /\ SetRegistry(postCallRegistry(h, body, size))
    /\ inflight' = IF Suspends(postCall(h, body, size))
                   THEN Suspend(postHandler(h, json(body, size)))
                   ELSE inflight
    /\ UNCHANGED <<now, uuidCalls, phase, deletedOk, swept, shutdowns, clientVars, shimVars>>

\* const mcpServer = createMCPServer(): created once at startup
mcpServer == "mcpServer"

\* the protocol server transport t is attached to: await
\* mcpServer.connect(transport), whatever the session
ServerOf(t) == IF transports[t].connected THEN mcpServer ELSE "none"

\* await mcpServer.connect(transport) resolves; transport.handleRequest is
\* called and awaited
PostConnected(r) ==
    /\ Running
    /\ r.pc = "connecting"
    /\ transports' = [transports EXCEPT ![r.transport].connected = TRUE]
    /\ inflight' = Resume(r) (+) SetToBag({[r EXCEPT !.pc = "handling"]})
    /\ UNCHANGED <<sessions, sessionLastAccess, now, uuidCalls, phase,
                   deletedOk, swept, shutdowns, clientVars, shimVars>>

\* await mcpServer.connect(transport) rejects: catch, 500 / -32603
PostConnectFails(r) ==
    /\ Running
    /\ r.pc = "connecting"
    /\ inflight' = Resume(r)
    /\ UNCHANGED <<sessions, sessionLastAccess, now, transports, uuidCalls,
                   phase, deletedOk, swept, shutdowns, clientVars, shimVars>>

\* variant: a generator that returns the same id every time
sessionIdGeneratorFixed == UuidNames[1]

\* sessionIdGenerator: () => randomUUID()
sessionIdGenerator == UuidNames[uuidCalls + 1]

\* onsessioninitialized: (id) => { sessions.set(id, transport);
\*                                 sessionLastAccess.set(id, Date.now()) }
onsessioninitialized(reg, id, t) ==
    [reg EXCEPT !.sessions = MapSet(@, id, t),
                !.lastAccess = MapSet(@, id, now)]

\* inside handleRequest of an initialize message on a fresh transport: the
\* transport takes its session id and calls onsessioninitialized
TransportInitialized(r) ==
    /\ Running
    /\ r.pc = "handling"
    /\ r.kind = "POST"
    /\ isInitializeRequest(r.body)
    /\ transports[r.transport].sessionId = Undefined
    /\ LET id == sessionIdGenerator
           named == [Current EXCEPT !.transports[r.transport].sessionId = id]
       IN  SetRegistry(onsessioninitialized(named, id, r.transport))
    /\ uuidCalls' = uuidCalls + 1
    /\ UNCHANGED <<now, inflight, phase, deletedOk, swept, shutdowns, clientVars, shimVars>>

\* the response once await transport.handleRequest(...) has settled, for
\* POST and GET: the captured response, or the catch block's 500 / -32603
handleRequestAnswer(ok) ==
    IF ok THEN Answer(ShimStatus, NoCode) ELSE Answer(500, INTERNAL_ERROR)

HandleRequestReturns(r, ok) ==
    /\ Running
    /\ r.pc = "handling"
    /\ inflight' = Resume(r)
    /\ UNCHANGED <<sessions, sessionLastAccess, now, transports, uuidCalls,
                   phase, deletedOk, swept, shutdowns, clientVars, shimVars>>

(***************************************************************************)
(* app.get('/mcp')                                                         *)
(***************************************************************************)
get(h) ==
    IF ~isValidSessionId(h)
    THEN Entry("format", Answer(400, INVALID_REQUEST), FALSE, NoTransport)
    ELSE IF ~MapHas(sessions, h)
    THEN Entry("nosession", Answer(400, INVALID_SESSION), TRUE, NoTransport)
    ELSE Entry("stream", Pending, TRUE, MapGet(sessions, h))

\* the GET handler writes neither map
getRegistry(h) == Current

Get(h) ==
    /\ Running
    /\ Suspends(get(h)) => CanSuspend
    /\ SetRegistry(getRegistry(h))
    /\ inflight' = IF Suspends(get(h))
                   THEN Suspend(Handler("handling", "GET", h, "none",
                                        get(h).transport, TRUE))
                   ELSE inflight
    /\ UNCHANGED <<now, uuidCalls, phase, deletedOk, swept, shutdowns, clientVars, shimVars>>

(***************************************************************************)
(* app.delete('/mcp')                                                      *)
(***************************************************************************)
delete(h) ==
    IF ~isValidSessionId(h)
    THEN Entry("format", Answer(400, INVALID_REQUEST), FALSE, NoTransport)
    ELSE IF ~MapHas(sessions, h)
    THEN Entry("nosession", Answer(400, INVALID_SESSION), TRUE, NoTransport)
    ELSE Entry("close", Pending, TRUE, MapGet(sessions, h))

\* transport.close() is called: its synchronous part runs, then the await
deleteRegistry(h, outcome) ==
    IF delete(h).path = "close"
    THEN TransportClose(Current, delete(h).transport, outcome)
    ELSE Current

Delete(h, outcome) ==
    /\ Running
    /\ Suspends(delete(h)) =>
          /\ CanSuspend
          /\ transports[delete(h).transport].closeCalls < MaxCloses
    /\ SetRegistry(deleteRegistry(h, outcome))
    /\ inflight' = IF Suspends(delete(h))
                   THEN Suspend(Handler("closing", "DELETE", h, "none",
                                        delete(h).transport,
                                        CloseResolves(outcome)))
                   ELSE inflight
    /\ UNCHANGED <<now, uuidCalls, phase, deletedOk, swept, shutdowns, clientVars, shimVars>>

\* after await transport.close(): success, or the catch block's answer
\* 500 { error: 'Failed to close session' }
deleteAnswer(closeOk) ==
    IF closeOk THEN Answer(200, NoCode) ELSE Answer(500, NoCode)

\* ... and on success: sessions.delete(id); sessionLastAccess.delete(id)
deleteFinish(reg, id, closeOk) ==
    IF closeOk
    THEN [reg EXCEPT !.sessions = MapDelete(@, id),
                     !.lastAccess = MapDelete(@, id)]
    ELSE reg

DeleteReturns(r) ==
    /\ Running
    /\ r.pc = "closing"
    /\ SetRegistry(deleteFinish(Current, r.sid, r.closeOk))
    /\ deletedOk' = IF r.closeOk THEN deletedOk \cup {r.sid} ELSE deletedOk
    /\ inflight' = Resume(r)
    /\ UNCHANGED <<now, uuidCalls, phase, swept, shutdowns, clientVars, shimVars>>

(***************************************************************************)
(* The transport closes on its own account (the protocol layer closes it): *)
(* close() runs and fires the close callback.                              *)
(***************************************************************************)
TransportCloses(t) ==
    /\ Running
    /\ t \in 1..Len(transports)
    /\ transports[t].sessionId # Undefined
    /\ transports[t].closeCalls = 0
    /\ SetRegistry(TransportClose(Current, t, "ok"))
    /\ UNCHANGED <<now, uuidCalls, inflight, phase, deletedOk, swept, shutdowns, clientVars, shimVars>>

(***************************************************************************)
(* sessionCleanupInterval: the periodic sweep.                             *)
(***************************************************************************)
\* variant: the operands of the subtraction exchanged
ExpiredSwapped(lastAccess) == lastAccess - now > SESSION_TIMEOUT_MS

\* variant: a session expires when it reaches the timeout
ExpiredAtLimit(lastAccess) == now - lastAccess >= SESSION_TIMEOUT_MS

\* if (now - lastAccess > SESSION_TIMEOUT_MS)
Expired(lastAccess) == now - lastAccess > SESSION_TIMEOUT_MS

\* for (const [id, lastAccess] of sessionLastAccess.entries()) { ... }: the
\* iterator is live, an entry deleted before its turn is not visited
RECURSIVE SweepLoop(_, _, _)
SweepLoop(todo, reg, outcome) ==
    IF todo = {} THEN reg
    ELSE LET id == CHOOSE x \in todo : TRUE
             rest == todo \ {id}
         IN  IF ~MapHas(reg.lastAccess, id) THEN SweepLoop(rest, reg, outcome)
             ELSE IF Expired(reg.lastAccess[id])
             THEN LET closed ==
                          IF MapHas(reg.sessions, id)
                          THEN TransportClose(reg, MapGet(reg.sessions, id),
                                              outcome[id])
                          ELSE reg
                  IN  SweepLoop(rest,
                          [closed EXCEPT !.sessions = MapDelete(@, id),
                                         !.lastAccess = MapDelete(@, id)],
                          outcome)
             ELSE SweepLoop(rest, reg, outcome)

StaleIds == {id \in DOMAIN sessionLastAccess : Expired(sessionLastAccess[id])}

Sweep ==
    /\ Running
    /\ \E outcome \in [StaleIds -> CloseOutcomes] :
          SetRegistry(SweepLoop(DOMAIN sessionLastAccess, Current, outcome))
    /\ swept' = swept \cup StaleIds
    /\ UNCHANGED <<now, uuidCalls, inflight, phase, deletedOk, shutdowns, clientVars, shimVars>>

\* time passes
AdvanceClock ==
    /\ Running
    /\ now < MaxClock * TimeStepMs
    /\ now' = now + TimeStepMs
    /\ UNCHANGED <<sessions, sessionLastAccess, transports, uuidCalls,
                   inflight, phase, deletedOk, swept, shutdowns, clientVars, shimVars>>

(***************************************************************************)
(* handleShutdown                                                          *)
(***************************************************************************)
\* for (const [sessionId, transport] of sessions) transport.close() ...
RECURSIVE ShutdownLoop(_, _, _)
ShutdownLoop(todo, reg, outcome) ==
    IF todo = {} THEN reg
    ELSE LET id == CHOOSE x \in todo : TRUE
             rest == todo \ {id}
         IN  IF ~MapHas(reg.sessions, id) THEN ShutdownLoop(rest, reg, outcome)
             ELSE ShutdownLoop(rest,
                      TransportClose(reg, MapGet(reg.sessions, id), outcome[id]),
                      outcome)

\* closePromises of one call of handleShutdown: one closure per transport
\* in the session map
closePromises == {MapGet(sessions, id) : id \in DOMAIN sessions}

\* whether await Promise.allSettled(closePromises) can still be waiting when
\* the call gives up control: never for an empty list, and for a non-empty
\* one it depends on the closures
Awaiting == IF closePromises = {} THEN {FALSE} ELSE BOOLEAN

\* sessions.clear(); sessionLastAccess.clear(); process.exit(0): the
\* suspended handlers end with the process
Exit(reg) ==
    /\ sessions' = EmptyMap
    /\ sessionLastAccess' = EmptyMap
    /\ transports' = reg.transports
    /\ inflight' = EmptyBag
    /\ phase' = "exited"

\* SIGTERM or SIGINT arrives (process.on registers handleShutdown for both,
\* so it may arrive again while an earlier call still awaits): close is
\* called on every session's transport, then Promise.allSettled is awaited;
\* when every closure settles without delay the call runs on to the exit
ShutdownSignal ==
    /\ phase # "exited"
    /\ Len(shutdowns) < MaxSignals
    /\ \E outcome \in [DOMAIN sessions -> CloseOutcomes], awaiting \in Awaiting :
          LET reg == ShutdownLoop(DOMAIN sessions, Current, outcome)
          IN  /\ shutdowns' = Append(shutdowns, awaiting)
              /\ IF awaiting
                 THEN SetRegistry(reg) /\ phase' = "closing"
                                       /\ UNCHANGED inflight
                 ELSE Exit(reg)
    /\ UNCHANGED <<now, uuidCalls, deletedOk, swept, clientVars, shimVars>>

\* the last closure awaited by the i-th call settles (it resolves, or it
\* rejects and .catch logs it): Promise.allSettled resolves and the call runs
\* on to the exit
ShutdownExit(i) ==
    /\ phase = "closing"
    /\ i \in 1..Len(shutdowns)
    /\ shutdowns[i]
    /\ shutdowns' = [shutdowns EXCEPT ![i] = FALSE]
    /\ Exit(Current)
    /\ UNCHANGED <<now, uuidCalls, deletedOk, swept, clientVars, shimVars>>

(***************************************************************************)
(* The outbound API client: client.get(endpoint) of searchKanji and        *)
(* getKanjiDetail, through the axios-retry interceptor that                *)
(* createApiClient installs.                                               *)
(***************************************************************************)
\* the outcome of one upstream attempt: a response status (NoStatus when no
\* response came) and the error code axios gives a failure without response
Outcome(status, code) == [status |-> status, code |-> code]

NoStatus == 0

Success == Outcome(200, "none")

HttpError(status) == Outcome(status, "ERR_BAD_RESPONSE")

NetworkError == Outcome(NoStatus, "ECONNRESET")

\* the request timed out (timeout: REQUEST_TIMEOUT): axios rejects with the
\* code ECONNABORTED and no response
TimeoutError == Outcome(NoStatus, "ECONNABORTED")

\* the connection attempt timed out at the socket
ConnectTimeout == Outcome(NoStatus, "ETIMEDOUT")

ErrorStatuses == {400, 404, 429, 499, 500, 503, 599}

Failures ==
    {HttpError(st) : st \in ErrorStatuses}
       \cup {NetworkError, TimeoutError, ConnectTimeout,
             Outcome(NoStatus, "ENOTFOUND")}

\* axios-retry's test, for the GET requests the client makes: no timeout,
\* and either no response at all or a 5xx response
isNetworkOrIdempotentRequestError(error) ==
    /\ error.code # "ECONNABORTED"
    /\ \/ error.status = NoStatus
       \/ error.status >= 500 /\ error.status <= 599

\* variant: every response of status 400 and up is taken to be retryable
shouldRetryAnyHttpError(error) ==
    IF isNetworkOrIdempotentRequestError(error) THEN TRUE
    ELSE IF error.status = NoStatus THEN FALSE
    ELSE error.status >= 400 /\ error.status < 600

shouldRetry(error) ==
    IF isNetworkOrIdempotentRequestError(error) THEN TRUE
    ELSE IF error.status = NoStatus THEN FALSE
    ELSE error.status = 429 \/ (error.status >= 500 /\ error.status < 600)

\* retryConfig.retries
retries == MAX_RETRIES

\* variants: the count compared one off, either way
retryAllowedOneMore(count, error) == count <= retries /\ shouldRetry(error)

retryAllowedOneLess(count, error) == count < retries - 1 /\ shouldRetry(error)

\* axios-retry's decision after a failed attempt: another attempt while
\* the count is below retries and retryCondition accepts the error
retryAllowed(count, error) == count < retries /\ shouldRetry(error)

NoOutcome == Outcome(NoStatus, "none")

(***************************************************************************)
(* The retry delay.                                                        *)
(***************************************************************************)
Min(a, b) == IF a <= b THEN a ELSE b

\* a value of Math.random(): a fraction in [0, 1)
Fraction(num, den) == [num |-> num, den |-> den]

RandomDraws == {Fraction(0, 1), Fraction(1, 50), Fraction(1, 2), Fraction(49, 50)}

\* error.response?.headers?.['retry-after']: absent, or the header's text
NoHeader == [present |-> FALSE, text |-> <<>>]

Header(text) == [present |-> TRUE, text |-> text]

RetryAfterTexts ==
    {<<>>, <<"0">>, <<"5">>, <<"3", "0">>, <<"3", "1">>, <<"1", "2", "0">>,
     <<"1", ".", "5">>, <<"-", "1">>, <<"W", "e", "d">>}

RetryAfterInputs == {NoHeader} \cup {Header(t) : t \in RetryAfterTexts}

IsDigit(c) == \E k \in 0..9 : Digit(k) = c

DigitValue(c) == CHOOSE k \in 0..9 : Digit(k) = c

\* /^\d+$/.test(text)
AllDigits(text) == Len(text) > 0 /\ \A i \in 1..Len(text) : IsDigit(text[i])

\* parseInt(text, 10) of a string of digits
RECURSIVE parseInt(_)
parseInt(text) ==
    IF Len(text) = 0 THEN 0
    ELSE 10 * parseInt(SubSeq(text, 1, Len(text) - 1)) + DigitValue(text[Len(text)])

\* 2 to the power n
RECURSIVE Pow2(_)
Pow2(n) == IF n <= 0 THEN 1 ELSE 2 * Pow2(n - 1)

\* what a delay function returns in milliseconds and what it logs
Delay(ms, level, capped) == [delay |-> ms, level |-> level, capped |-> capped]

\* variant: base is not held at MAX_BACKOFF
calculateBackoffDelayUncapped(retryNumber, random) ==
    LET baseMs == (INITIAL_BACKOFF.num * Pow2(retryNumber - 1) * MsPerSecond)
                     \div INITIAL_BACKOFF.den
        jitterMs == (random.num * baseMs) \div (random.den * 10)
    IN  baseMs + jitterMs

\* calculateBackoffDelay, in milliseconds throughout:
\* base = min(INITIAL_BACKOFF * 2^(retryNumber - 1), MAX_BACKOFF),
\* jitter = Math.random() * base * 0.1, result (base + jitter) * 1000
calculateBackoffDelay(retryNumber, random) ==
    LET baseMs == Min((INITIAL_BACKOFF.num * Pow2(retryNumber - 1) * MsPerSecond)
                         \div INITIAL_BACKOFF.den,
                      MAX_BACKOFF * MsPerSecond)
        jitterMs == (random.num * baseMs) \div (random.den * 10)
    IN  baseMs + jitterMs

\* variant: the server's number of seconds is used as it is
getRetryDelayUncapped(retryAfter, retryNumber, random) ==
    IF retryAfter.present /\ AllDigits(retryAfter.text)
    THEN Delay(parseInt(retryAfter.text) * MsPerSecond, "warn",
               parseInt(retryAfter.text) > MAX_BACKOFF)
    ELSE Delay(calculateBackoffDelay(retryNumber, random), "none", FALSE)

\* variant: the server's number of seconds is used for the first retry only
getRetryDelayFirstOnly(retryAfter, retryNumber, random) ==
    IF retryAfter.present /\ AllDigits(retryAfter.text) /\ retryNumber = 1
    THEN Delay(Min(parseInt(retryAfter.text), MAX_BACKOFF) * MsPerSecond, "warn",
               parseInt(retryAfter.text) > MAX_BACKOFF)
    ELSE Delay(calculateBackoffDelay(retryNumber, random), "none", FALSE)

\* getRetryDelay: a Retry-After header of digits only gives
\* min(requestedSeconds, MAX_BACKOFF) * 1000 and a logger.warn entry (which
\* says "capped" when requestedSeconds > MAX_BACKOFF); otherwise the backoff
getRetryDelay(retryAfter, retryNumber, random) ==
    IF retryAfter.present /\ AllDigits(retryAfter.text)
    THEN LET requestedSeconds == parseInt(retryAfter.text)
             cappedSeconds == Min(requestedSeconds, MAX_BACKOFF)
             wasCapped == requestedSeconds > MAX_BACKOFF
         IN  Delay(cappedSeconds * MsPerSecond, "warn", wasCapped)
    ELSE Delay(calculateBackoffDelay(retryNumber, random), "none", FALSE)

(***************************************************************************)
(* Response shape validation of searchKanji and getKanjiDetail.            *)
(***************************************************************************)
\* response.data: a JSON value, by its kind
Json(kind, items, hasKanji) == [kind |-> kind, items |-> items, hasKanji |-> hasKanji]

JsonNull == Json("null", <<>>, FALSE)

JsonString == Json("string", <<>>, FALSE)

JsonNumber == Json("number", <<>>, FALSE)

JsonObject(hasKanji) == Json("object", <<>>, hasKanji)

JsonArray(items) == Json("array", items, FALSE)

NoData == Json("undefined", <<>>, FALSE)

DataInputs ==
    {JsonNull, JsonString, JsonNumber, JsonObject(TRUE), JsonObject(FALSE),
     JsonArray(<<>>), JsonArray(<<JsonObject(TRUE)>>),
     JsonArray(<<JsonObject(TRUE), JsonObject(FALSE)>>),
     JsonArray(<<JsonObject(TRUE), JsonNull>>),
     JsonArray(<<JsonString>>), JsonArray(<<JsonArray(<<>>)>>)}

\* JavaScript's typeof
typeof(data) ==
    IF data.kind \in {"null", "object", "array"} THEN "object" ELSE data.kind

isArray(data) == data.kind = "array"

\* variant: the items of the array are not looked at
validateSearchResponseArrayOnly(data) ==
    IF ~isArray(data) THEN "throw" ELSE "ok"

\* validateSearchResponse: "throw" when it throws, "ok" when it returns
validateSearchResponse(data) ==
    IF ~isArray(data) THEN "throw"
    ELSE IF \E idx \in 1..Len(data.items) :
               typeof(data.items[idx]) # "object" \/ data.items[idx].kind = "null"
    THEN "throw"
    ELSE "ok"

validateKanjiDetailResponse(data) ==
    IF typeof(data) # "object" \/ data.kind = "null" \/ isArray(data)
    THEN "throw"
    ELSE "ok"

ApiFunctions == {"searchKanji", "getKanjiDetail"}

validate(fn, data) ==
    IF fn = "searchKanji" THEN validateSearchResponse(data)
    ELSE validateKanjiDetailResponse(data)

(***************************************************************************)
(* One outbound call.                                                      *)
(***************************************************************************)
(***************************************************************************)
(* The tools' catch block: toErrorResult and handleApiError.  A message is *)
(* a sequence of parts: the literals of the source, and whatever of the    *)
(* error is interpolated into them.                                        *)
(***************************************************************************)
\* the reason phrase of the upstream status line
StatusTexts == {"", "Forbidden"}

\* the AxiosError of a rejected call: it holds the upstream response
\* (status, statusText, data) and the request with the API key header
AxiosError(outcome, statusText) ==
    [class |-> "AxiosError", status |-> outcome.status, code |-> outcome.code,
     statusText |-> statusText, data |-> "upstream body",
     key |-> "X-RapidAPI-Key value", message |-> "Request failed"]

\* what the tool's try block threw: the AxiosError of the rejected call, or
\* the Error that validateSearchResponse / validateKanjiDetailResponse
\* throws, whose message names the type of the data
Thrown(statusText) ==
    IF call = "rejected" THEN AxiosError(surfaced, statusText)
    ELSE [class |-> "Error", status |-> NoStatus, code |-> "none",
          statusText |-> "", data |-> "upstream body",
          key |-> "X-RapidAPI-Key value",
          message |-> typeof(responseData)]

FixedMessages ==
    {<<"Resource not found.">>, <<"Invalid request.">>,
     <<"Rate limit exceeded.">>, <<"Kanji Alive server error.">>,
     <<"Request timed out.">>, <<"Network error.">>,
     <<"Validation error: ">>, <<"An unexpected error occurred while processing your request.">>,
     <<"An unexpected error occurred. Please try again.">>}

\* variant: the generic HTTP error message quotes the response data
handleApiErrorQuotesData(error) ==
    IF error.class = "AxiosError"
    THEN <<"API request failed with status ", ToString(error.status), ": ",
           error.data>>
    ELSE <<"An unexpected error occurred while processing your request.">>

\* handleApiError(error): the message of the ToolError it throws
handleApiError(error) ==
    IF error.class = "AxiosError"
    THEN IF error.status = 404 THEN <<"Resource not found.">>
         ELSE IF error.status = 400 THEN <<"Invalid request.">>
         ELSE IF error.status = 429 THEN <<"Rate limit exceeded.">>
         ELSE IF error.status # NoStatus /\ error.status >= 500
         THEN <<"Kanji Alive server error.">>
         ELSE IF error.code \in {"ECONNABORTED", "ETIMEDOUT"}
         THEN <<"Request timed out.">>
         ELSE IF error.code \in {"ENOTFOUND", "ECONNREFUSED"}
         THEN <<"Network error.">>
         ELSE <<"API request failed with status ",
                IF error.status = NoStatus THEN "undefined"
                ELSE ToString(error.status),
                ": ",
                IF error.statusText # "" THEN error.statusText
                ELSE "Unknown error">>
    ELSE IF error.class = "ValidationError"
    THEN <<"Validation error: ", error.message>>
    ELSE IF error.class = "Error"
    THEN <<"An unexpected error occurred while processing your request.">>
    ELSE <<"An unexpected error occurred. Please try again.">>

ToolResult(text, isError) == [text |-> text, isError |-> isError]

NoToolResult == ToolResult(<<>>, FALSE)

\* return { content: [{ type: 'text', text: formattedResults }] }
Formatted == ToolResult(<<"formatted results">>, FALSE)

\* toErrorResult(error, toolName)
toErrorResult(error) ==
    IF error.class = "ToolError" THEN ToolResult(<<error.message>>, TRUE)
    ELSE ToolResult(handleApiError(error), TRUE)

NoProbe == [retryAfter |-> NoHeader, retryCount |-> 0, random |-> Fraction(0, 1)]

NoResult == [fn |-> "none", delay |-> 0, level |-> "none", capped |-> FALSE]

DelayIdle ==
    /\ delayProbe = NoProbe
    /\ delayResult = NoResult

ClientInit ==
    /\ call = "idle"
    /\ attempts = <<>>
    /\ retryCount = 0
    /\ retryLog = 0
    /\ surfaced = NoOutcome
    /\ lastWait = 0
    /\ apiFn = "none"
    /\ responseData = NoData
    /\ apiResult = "none"
    /\ toolResult = NoToolResult

\* searchKanji / getKanjiDetail: const response = await client.get(endpoint);
\* the first attempt is sent
CallStarts(fn) ==
    /\ call \in {"idle", "resolved", "rejected"}
    /\ call' = "pending"
    /\ attempts' = <<>>
    /\ retryCount' = 0
    /\ retryLog' = 0
    /\ surfaced' = NoOutcome
    /\ lastWait' = 0
    /\ apiFn' = fn
    /\ responseData' = NoData
    /\ apiResult' = "none"
    /\ toolResult' = NoToolResult
    /\ UNCHANGED <<delayProbe, delayResult, gatewayVars, shimVars>>

\* the attempt is answered with a 2xx response: client.get resolves, the
\* function validates response.data and returns it or throws
AttemptSucceeds(data) ==
    /\ call = "pending"
    /\ attempts' = Append(attempts, Success)
    /\ call' = "resolved"
    /\ surfaced' = Success
    /\ responseData' = data
    /\ apiResult' = IF validate(apiFn, data) = "ok" THEN "returned" ELSE "threw"
    /\ UNCHANGED <<retryCount, retryLog, lastWait, apiFn, delayProbe,
                   delayResult, gatewayVars, shimVars, toolResult>>

\* the attempt fails: axios-retry either schedules a retry (the count goes
\* up, retryDelay gives the wait and onRetry logs "Retry attempt
\* n/MAX_RETRIES") or rejects the call with this error, which the function
\* lets through to its caller
AttemptFails(error, retryAfter, random) ==
    /\ call = "pending"
    /\ error.status = NoStatus => retryAfter = NoHeader
    /\ attempts' = Append(attempts, error)
    /\ IF retryAllowed(retryCount, error)
       THEN /\ retryCount' = retryCount + 1
            /\ lastWait' = getRetryDelay(retryAfter, retryCount + 1, random).delay
            /\ retryLog' = retryLog + 1
            /\ call' = "waiting"
            /\ UNCHANGED <<surfaced, apiResult>>
       ELSE /\ call' = "rejected"
            /\ surfaced' = error
            /\ apiResult' = "threw"
            /\ UNCHANGED <<retryCount, retryLog, lastWait>>
    /\ UNCHANGED <<apiFn, responseData, delayProbe, delayResult, gatewayVars, shimVars, toolResult>>

\* the retry delay has passed: the request is sent again
RetryFires ==
    /\ call = "waiting"
    /\ call' = "pending"
    /\ UNCHANGED <<attempts, retryCount, retryLog, surfaced, lastWait, apiFn,
                   responseData, apiResult, delayProbe, delayResult,
                   gatewayVars, shimVars, toolResult>>

\* the tool's try block is over: it returns the formatted result, or its
\* catch block returns toErrorResult(error) for what getKanjiDetail or
\* searchKanji threw
ToolReturns(statusText) ==
    /\ apiResult # "none"
    /\ toolResult = NoToolResult
    /\ toolResult' = IF apiResult = "returned" THEN Formatted
                     ELSE toErrorResult(Thrown(statusText))
    /\ UNCHANGED <<call, attempts, retryCount, retryLog, surfaced, lastWait,
                   apiFn, responseData, apiResult, delayProbe, delayResult,
                   gatewayVars, shimVars>>

ClientNext ==
    \/ \E fn \in ApiFunctions : CallStarts(fn)
    \/ \E data \in DataInputs : AttemptSucceeds(data)
    \/ \E error \in Failures, retryAfter \in RetryAfterInputs,
          random \in RandomDraws : AttemptFails(error, retryAfter, random)
    \/ RetryFires
    \/ \E statusText \in StatusTexts : ToolReturns(statusText)

(***************************************************************************)
(* The delay functions on their own: the arguments are drawn at the start, *)
(* one of the functions is applied to them.                                *)
(***************************************************************************)
ProbeInputs ==
    [retryAfter : RetryAfterInputs, retryCount : 1..MaxRetryNumber,
     random : RandomDraws]

DelayInit ==
    /\ delayProbe \in ProbeInputs
    /\ delayResult = NoResult

ApplyGetRetryDelay ==
    /\ delayResult = NoResult
    /\ delayProbe # NoProbe
    /\ LET d == getRetryDelay(delayProbe.retryAfter, delayProbe.retryCount,
                              delayProbe.random)
       IN  delayResult' = [fn |-> "getRetryDelay", delay |-> d.delay,
                           level |-> d.level, capped |-> d.capped]
    /\ UNCHANGED <<call, attempts, retryCount, retryLog, surfaced, lastWait,
                   apiFn, responseData, apiResult, delayProbe, gatewayVars, shimVars, toolResult>>

ApplyCalculateBackoffDelay ==
    /\ delayResult = NoResult
    /\ delayProbe # NoProbe
    /\ delayResult' =
          [fn |-> "calculateBackoffDelay",
           delay |-> calculateBackoffDelay(delayProbe.retryCount, delayProbe.random),
           level |-> "none", capped |-> FALSE]
    /\ UNCHANGED <<call, attempts, retryCount, retryLog, surfaced, lastWait,
                   apiFn, responseData, apiResult, delayProbe, gatewayVars, shimVars, toolResult>>

DelayNext ==
    \/ ApplyGetRetryDelay
    \/ ApplyCalculateBackoffDelay

(***************************************************************************)
(* createMockResponse: the stand-in for ServerResponse that is handed to   *)
(* transport.handleRequest, and getResponse, which reads what it captured. *)
(* Text is a sequence of characters; a header value is a string or an      *)
(* array of strings.                                                       *)
(***************************************************************************)
\* calls of write and end made on one shim (chunks captured plus calls of
\* end) after which the transport makes no further call on it
MaxShimCalls == 3

Arg(kind, value) == [kind |-> kind, value |-> value]

undefined == Arg("undefined", <<>>)

Fn == Arg("function", <<>>)

\* new TextDecoder().decode(bytes), each chunk on its own: ASCII bytes, the
\* two-byte sequence of e-acute, and U+FFFD for a byte that starts a
\* sequence it does not finish
RECURSIVE decode(_)
decode(bytes) ==
    IF bytes = <<>> THEN <<>>
    ELSE IF bytes[1] < 128
    THEN <<[b \in {97, 98} |-> IF b = 97 THEN "a" ELSE "b"][bytes[1]]>>
             \o decode(Tail(bytes))
    ELSE IF Len(bytes) >= 2 /\ bytes[1] = 195 /\ bytes[2] = 169
    THEN <<"e-acute">> \o decode(Tail(Tail(bytes)))
    ELSE <<"U+FFFD">> \o decode(Tail(bytes))

\* chunks: the empty string, "a", and two byte arrays
ChunkInputs ==
    {Arg("string", <<>>), Arg("string", <<"a">>),
     Arg("Uint8Array", <<98, 195, 169>>), Arg("Uint8Array", <<195>>)}

\* [].join(''): the texts one after another
RECURSIVE join(_)
join(chunks) == IF chunks = <<>> THEN <<>> ELSE Head(chunks) \o join(Tail(chunks))

\* value.join(', ') of a header value that is an array
RECURSIVE joinComma(_)
joinComma(items) ==
    IF items = <<>> THEN <<>>
    ELSE IF Len(items) = 1 THEN <<items[1]>>
    ELSE <<items[1], ", ">> \o joinComma(Tail(items))

\* header values: a string, and an array of strings
HeaderValues ==
    {[isArray |-> FALSE, items |-> <<"x">>],
     [isArray |-> TRUE, items |-> <<"x", "y">>]}

\* const responseHeaders = {}; const responseChunks = []; let responseStatus
\* = 200; let headersSent = false; mock.finished = false
createMockResponse ==
    [responseStatus |-> ShimStatus, responseHeaders |-> EmptyMap,
     responseChunks |-> <<>>, headersSent |-> FALSE, finished |-> FALSE,
     callbacks |-> 0, finishEvents |-> 0]

\* Object.assign(target, source)
assign(target, source) ==
    [k \in DOMAIN target \cup DOMAIN source |->
        IF k \in DOMAIN source THEN source[k] ELSE target[k]]

\* mock.writeHead(status, statusMessage, headers): the second argument may
\* be the headers object
writeHead(m, status, statusMessage, headers) ==
    LET actualHeaders == IF statusMessage.kind = "object" THEN statusMessage
                         ELSE headers
    IN  [m EXCEPT !.responseStatus = status,
                  !.responseHeaders =
                      IF actualHeaders.kind = "object"
                      THEN assign(@, actualHeaders.value) ELSE @,
                  !.headersSent = TRUE]

\* chunk instanceof Uint8Array ? decode(chunk) : chunk.toString()
chunkText(chunk) ==
    IF chunk.kind = "Uint8Array" THEN decode(chunk.value) ELSE chunk.value

\* mock.write(chunk)
write(m, chunk) ==
    [m EXCEPT !.responseChunks = Append(@, chunkText(chunk))]

\* variant: end pays no attention to its data argument
endWithoutData(m, data, encoding, callback) ==
    [m EXCEPT !.callbacks = @ + (IF "function" \in {data.kind, encoding.kind,
                                                    callback.kind}
                                 THEN 1 ELSE 0),
              !.finished = TRUE,
              !.finishEvents = @ + 1]

\* mock.end(data, encoding, callback): data() if it is a function, else the
\* data pushed when it is a Uint8Array or truthy (a string that is not
\* empty); then encoding() if it is a function, else callback() if that is
end(m, data, encoding, callback) ==
    LET pushed == IF data.kind = "Uint8Array"
                     \/ (data.kind = "string" /\ data.value # <<>>)
                  THEN Append(m.responseChunks, chunkText(data))
                  ELSE m.responseChunks
        called == (IF data.kind = "function" THEN 1 ELSE 0)
                     + (IF encoding.kind = "function" THEN 1
                        ELSE IF callback.kind = "function" THEN 1 ELSE 0)
    IN  [m EXCEPT !.responseChunks = pushed,
                  !.callbacks = @ + called,
                  !.finished = TRUE,
                  !.finishEvents = @ + 1]

\* mock.setHeader(name, value)
setHeader(m, name, value) ==
    [m EXCEPT !.responseHeaders = MapSet(@, name, value)]

\* mock.removeHeader(name)
removeHeader(m, name) ==
    [m EXCEPT !.responseHeaders = MapDelete(@, name)]

\* getResponse(): the status, each header with an array joined by ', ', and
\* the chunks joined
getResponse(m) ==
    [status |-> m.responseStatus,
     headers |-> [n \in DOMAIN m.responseHeaders |->
                     IF m.responseHeaders[n].isArray
                     THEN joinComma(m.responseHeaders[n].items)
                     ELSE m.responseHeaders[n].items],
     body |-> join(m.responseChunks)]

NoResponse == [status |-> 0, headers |-> EmptyMap, body |-> <<>>]

ShimInit ==
    /\ shim = createMockResponse
    /\ atFinish = NoResponse
    /\ handled = "pending"
    /\ httpResponse = NoResponse

\* a call of one of mock's functions by the transport
ShimCall(m) ==
    /\ shim' = m
    /\ atFinish' = IF m.finished /\ ~shim.finished THEN getResponse(m) ELSE atFinish
    /\ UNCHANGED <<handled, httpResponse, gatewayVars, clientVars>>

\* res.writeHead(202), (202, 'OK', headers), (202, headers), ...
TransportWritesHead ==
    LET object == Arg("object", [n \in {"content-type"} |->
                                   [isArray |-> FALSE, items |-> <<"z">>]])
    IN  \E statusMessage \in {undefined, Arg("string", <<"O", "K">>), object},
           headers \in {undefined, object} :
            /\ ~shim.headersSent
            /\ ShimCall(writeHead(shim, 202, statusMessage, headers))

TransportWrites ==
    \E chunk \in ChunkInputs :
        /\ shim.finishEvents + Len(shim.responseChunks) < MaxShimCalls
        /\ ShimCall(write(shim, chunk))

TransportSetsHeader ==
    \E v \in HeaderValues :
        /\ ~MapHas(shim.responseHeaders, "content-type")
        /\ ShimCall(setHeader(shim, "content-type", v))

TransportRemovesHeader ==
    /\ MapHas(shim.responseHeaders, "content-type")
    /\ ShimCall(removeHeader(shim, "content-type"))

\* the second and third argument of end: (), (cb), ('utf8'), ('utf8', cb)
EndCallbacks ==
    {<<undefined, undefined>>, <<Fn, undefined>>, <<undefined, Fn>>,
     <<Arg("string", <<"utf8">>), undefined>>, <<Arg("string", <<"utf8">>), Fn>>}

TransportEnds ==
    \E data \in ChunkInputs \cup {undefined, Fn}, encoding \in {c[1] : c \in EndCallbacks},
       callback \in {c[2] : c \in EndCallbacks} :
        /\ shim.finishEvents + Len(shim.responseChunks) < MaxShimCalls
        /\ ShimCall(end(shim, data, encoding, callback))

\* await transport.handleRequest(mockReq, mockRes, body) settles: the
\* transport decides when, whatever it has done with the shim by then
HandleRequestSettles(ok) ==
    /\ handled = "pending"
    /\ handled' = IF ok THEN "resolved" ELSE "rejected"
    /\ UNCHANGED <<shim, atFinish, httpResponse, gatewayVars, clientVars>>

\* after the await: const { status, headers, body } = getResponse(), and
\* POST: return new Response(responseBody || '{}', { status, headers })
\* GET:  return new Response(responseBody, { status, headers })
\* or the catch block: 500 with the -32603 object
HandlerResponds(kind) ==
    /\ handled # "pending"
    /\ httpResponse = NoResponse
    /\ httpResponse' =
          IF handled = "resolved"
          THEN [getResponse(shim) EXCEPT
                   !.body = IF kind = "POST" /\ @ = <<>> THEN <<"{", "}">> ELSE @]
          ELSE [status |-> 500,
                headers |-> [n \in {"content-type"} |-> <<"json">>],
                body |-> <<"-32603">>]
    /\ UNCHANGED <<shim, atFinish, handled, gatewayVars, clientVars>>

ShimNext ==
    \/ TransportWritesHead
    \/ TransportWrites
    \/ TransportSetsHeader
    \/ TransportRemovesHeader
    \/ TransportEnds
    \/ \E ok \in BOOLEAN : HandleRequestSettles(ok)
    \/ \E kind \in {"POST", "GET"} : HandlerResponds(kind)

(***************************************************************************)
(* The specifications: the gateway, and the API client.                    *)
(***************************************************************************)
Init == GatewayInit /\ ClientInit /\ DelayIdle /\ ShimInit

Next ==
    \/ \E h \in HeaderInputs, in \in PostInputs : Post(h, in[1], in[2])
    \/ \E r \in Suspended : PostConnected(r)
    \/ \E r \in Suspended : PostConnectFails(r)
    \/ \E r \in Suspended : TransportInitialized(r)
    \/ \E r \in Suspended, ok \in BOOLEAN : HandleRequestReturns(r, ok)
    \/ \E h \in HeaderInputs : Get(h)
    \/ \E h \in HeaderInputs, o \in CloseOutcomes : Delete(h, o)
    \/ \E r \in Suspended : DeleteReturns(r)
    \/ \E t \in 1..MaxSessions : TransportCloses(t)
    \/ Sweep
    \/ AdvanceClock
    \/ ShutdownSignal
    \/ \E i \in 1..MaxSignals : ShutdownExit(i)

Spec == Init /\ [][Next]_vars

\* the gateway with the sweep timer firing again and again (setInterval)
LiveSpec == Spec /\ WF_vars(Sweep)

ClientSpec == Init /\ [][ClientNext]_vars

DelayInitAll == GatewayInit /\ ClientInit /\ DelayInit /\ ShimInit

DelaySpec == DelayInitAll /\ [][DelayNext]_vars

ShimSpec == Init /\ [][ShimNext]_vars

(***************************************************************************)
(* Properties of the gateway (Spec, LiveSpec).                             *)
(***************************************************************************)
JsonBodies == {"initialize", "other"}

\* the call is answered at once with this error and handed to no transport
Rejected(e, status, code) ==
    e.answer = Answer(status, code) /\ e.transport = NoTransport

Unrecognized(e) == Rejected(e, 400, INVALID_SESSION)

CaughtAsInternal(e) == Rejected(e, 500, INTERNAL_ERROR)

Malformed == {h \in HeaderInputs \ {Undefined} : ~MatchesUuidV4(Text(h))}

\* C2 as stated: on each of POST, GET and DELETE a supplied header value
\* that is not 36 characters matching the UUID v4 pattern is rejected with
\* 400 / -32600 before any lookup in the session map, and both maps stay
\* as they are.
C2_MalformedRejected ==
    \A h \in Malformed :
       /\ \A body \in BodyInputs :
             /\ Rejected(post(h, body), 400, INVALID_REQUEST)
             /\ ~post(h, body).lookedUp
             /\ postRegistry(h, body) = Current
       /\ Rejected(get(h), 400, INVALID_REQUEST)
       /\ ~get(h).lookedUp
       /\ getRegistry(h) = Current
       /\ Rejected(delete(h), 400, INVALID_REQUEST)
       /\ ~delete(h).lookedUp
       /\ \A o \in CloseOutcomes : deleteRegistry(h, o) = Current

\* the transports that took this id
TransportsOf(id) == {t \in 1..Len(transports) : transports[t].sessionId = id}

\* last access more than 30 minutes in the past
Stale(id) ==
    /\ id \in DOMAIN sessionLastAccess
    /\ now - sessionLastAccess[id] > 30 * 60 * 1000

C4_RoutedCallTouches ==
    \A S \in DOMAIN sessions :
       /\ \A body \in JsonBodies :
             post(S, body).path = "reuse" =>
                postRegistry(S, body).lastAccess[S] = now
       /\ get(S).path = "stream" => getRegistry(S).lastAccess[S] = now

\* C5 as stated: a DELETE whose transport.close() has been called removes
\* the id from both maps and does not answer with a failure, whether the
\* close resolved or rejected.
C5_CloseFailureSwallowed ==
    \A r \in Suspended :
       r.pc = "closing" =>
          /\ r.sid \notin DOMAIN deleteFinish(Current, r.sid, r.closeOk).sessions
          /\ r.sid \notin DOMAIN deleteFinish(Current, r.sid, r.closeOk).lastAccess
          /\ deleteAnswer(r.closeOk).status < 400

\* well-formed ids that are in no map
UnknownIds == {h \in HeaderInputs : isValidSessionId(h) /\ h \notin DOMAIN sessions}

\* the call changes neither map and creates no transport
NoEffect(reg) == reg = Current

C7_IdsUniqueNeverReused ==
    /\ [](\A id1, id2 \in DOMAIN sessions :
             sessions[id1] = sessions[id2] => id1 = id2)
    /\ [](\A id \in DOMAIN sessions : transports[sessions[id]].sessionId = id)
    /\ [](\A t1, t2 \in 1..Len(transports) :
             (t1 # t2 /\ transports[t1].sessionId # Undefined) =>
                transports[t1].sessionId # transports[t2].sessionId)
    /\ [][\A id \in DOMAIN sessions' \ DOMAIN sessions : TransportsOf(id) = {}]_vars

C7_Witness ==
    /\ Cardinality(DOMAIN sessions) = 1
    /\ \E t \in 1..Len(transports) :
          /\ transports[t].sessionId # Undefined
          /\ transports[t].sessionId \notin DOMAIN sessions
          /\ transports[t].closeCalls >= 1

(***************************************************************************)
(* Properties of the API client (ClientSpec).                              *)
(***************************************************************************)
Last(seq) == seq[Len(seq)]

AllRetryable(seq) == \A i \in 1..Len(seq) : seq[i] \in Failures /\ shouldRetry(seq[i])

\* C8: one outbound call is retried at most MAX_RETRIES = 3 times, so it
\* makes at most 1 + 3 upstream attempts whatever retryable failures the
\* upstream produces; when all 1 + 3 attempts have failed with a retryable
\* error the call is rejected with the error of the last attempt and no
\* attempt is pending or scheduled.
C8_RetriesCapped ==
    /\ MAX_RETRIES = 3
    /\ retryCount <= MAX_RETRIES
    /\ Len(attempts) <= 1 + MAX_RETRIES
    /\ Len(attempts) <= 1 + retryCount
    /\ (Len(attempts) = 1 + MAX_RETRIES /\ AllRetryable(attempts)) =>
          /\ call = "rejected"
          /\ surfaced = Last(attempts)

C8_Witness ==
    /\ Len(attempts) = 1 + MAX_RETRIES
    /\ AllRetryable(attempts)
    /\ call = "rejected"
    /\ surfaced = Last(attempts)
    /\ retryCount = MAX_RETRIES

ThreeFailures == <<HttpError(500), HttpError(500), HttpError(500)>>

\* C9: with three retries allowed, a call whose first three attempts fail
\* with HTTP 500 is still retried after each of them (the fourth attempt is
\* permitted), and when the fourth attempt succeeds the call resolves with
\* that success and has recorded exactly 3 retry log entries.
C9_ThreeFailuresThenSuccess ==
    /\ \A n \in 1..3 :
          attempts = SubSeq(ThreeFailures, 1, n) =>
             /\ call \in {"waiting", "pending"}
             /\ retryLog = n
    /\ attempts = Append(ThreeFailures, Success) =>
          /\ call = "resolved"
          /\ surfaced = Success
          /\ retryLog = 3

C9_Witness ==
    /\ attempts = Append(ThreeFailures, Success)
    /\ call = "resolved"
    /\ surfaced = Success
    /\ retryLog = 3

\* a 4xx status other than 429
Terminal(outcome) ==
    outcome.status >= 400 /\ outcome.status < 500 /\ outcome.status # 429

\* C10: an attempt that fails with a terminal HTTP status (4xx other than
\* 429) is never retried: it is the last attempt of its call, the call is
\* rejected with its error, and when it is the first attempt the call has
\* made exactly one attempt and logged no retry.
C10_TerminalStatusNotRetried ==
    \A i \in 1..Len(attempts) :
       Terminal(attempts[i]) =>
          /\ i = Len(attempts)
          /\ call = "rejected"
          /\ surfaced = attempts[i]
          /\ i = 1 => (retryCount = 0 /\ retryLog = 0)

C10_Witness ==
    /\ attempts = <<HttpError(404)>>
    /\ call = "rejected"
    /\ surfaced = HttpError(404)
    /\ retryCount = 0

\* the classes the specification calls retryable: no response (network
\* failure, timeout), HTTP 429, HTTP 5xx
RetryableClass(outcome) ==
    \/ outcome \in {NetworkError, TimeoutError, ConnectTimeout}
    \/ outcome.status = 429
    \/ outcome.status >= 500 /\ outcome.status <= 599

\* C11 as stated: a failure of a retryable class (network failure, timeout,
\* 429, 5xx) is followed by another attempt while retry budget remains, so
\* a call rejected with such a failure (a timeout in particular) has made
\* all 1 + MAX_RETRIES attempts.
C11_RetryableClassesRetried ==
    (call = "rejected" /\ RetryableClass(surfaced)) =>
       Len(attempts) = 1 + MAX_RETRIES

(***************************************************************************)
(* Properties of the retry delay (DelaySpec, ClientSpec) and of the        *)
(* response validation (ClientSpec).                                       *)
(***************************************************************************)
\* the header is a number of seconds written in digits
IsHint(retryAfter) == retryAfter.present /\ AllDigits(retryAfter.text)

\* C12: for a Retry-After hint of h seconds (digits only) getRetryDelay
\* returns exactly h * 1000 ms when h <= MAX_BACKOFF = 30 and exactly
\* 30 * 1000 ms when h > 30, whatever the retry number and the random draw;
\* when h > 30 the entry it logs is a warning that says the value was
\* capped.
C12_HintDelayExact ==
    /\ MAX_BACKOFF = 30
    /\ (delayResult.fn = "getRetryDelay" /\ IsHint(delayProbe.retryAfter)) =>
          LET h == parseInt(delayProbe.retryAfter.text)
          IN  /\ h <= 30 => delayResult.delay = h * 1000
              /\ h > 30 =>
                    /\ delayResult.delay = 30 * 1000
                    /\ delayResult.level = "warn"
                    /\ delayResult.capped
              /\ \A n \in 1..MaxRetryNumber, r \in RandomDraws :
                    getRetryDelay(delayProbe.retryAfter, n, r).delay
                       = delayResult.delay

C12_Witness ==
    /\ delayResult.fn = "getRetryDelay"
    /\ delayProbe.retryAfter = Header(<<"1", "2", "0">>)
    /\ delayProbe.retryCount = 3
    /\ delayProbe.random = Fraction(49, 50)
    /\ delayResult.delay = 30000
    /\ delayResult.level = "warn"

\* C13: every wait scheduled between two attempts of a call, from the
\* backoff or from a server hint, is between 0 and the ceiling of 30 s.
C13_WaitWithinCeiling ==
    /\ lastWait >= 0
    /\ lastWait <= 30 * 1000
    /\ call = "waiting" => retryCount \in 1..MAX_RETRIES

C13_Witness ==
    /\ call = "waiting"
    /\ retryCount = MAX_RETRIES
    /\ lastWait = 30 * 1000

\* base = min(INITIAL_BACKOFF * 2^(n-1), MAX_BACKOFF), in milliseconds
BaseMs(n) == Min((1000 * Pow2(n - 1)) \div 2, 30 * 1000)

\* C14: without a server hint the delay d for retry number n satisfies
\* base <= d < 1.1 * base with base = min(0.5 * 2^(n-1), 30) seconds; it is
\* not negative, not above 30 * 1000 * 1.1 ms, and with the same random
\* draw the delay for n + 1 is not smaller.
C14_BackoffWithinJitter ==
    (\/ delayResult.fn = "calculateBackoffDelay"
     \/ delayResult.fn = "getRetryDelay" /\ ~IsHint(delayProbe.retryAfter)) =>
       LET d == delayResult.delay
           base == BaseMs(delayProbe.retryCount)
       IN  /\ base <= d
           /\ 10 * d < 11 * base
           /\ d >= 0
           /\ 10 * d <= 11 * 30 * 1000
           /\ delayResult.level = "none"
           /\ calculateBackoffDelay(delayProbe.retryCount + 1, delayProbe.random) >= d

C14_Witness ==
    /\ delayResult.fn = "calculateBackoffDelay"
    /\ delayProbe.retryCount = MaxRetryNumber
    /\ delayProbe.random = Fraction(49, 50)
    /\ delayResult.delay = 32940

\* an array whose items are all objects other than null
ArrayOfObjects(data) ==
    /\ data.kind = "array"
    /\ \A i \in 1..Len(data.items) : data.items[i].kind \in {"object", "array"}

ShapeFits(fn, data) ==
    IF fn = "searchKanji" THEN ArrayOfObjects(data) ELSE data.kind = "object"

\* C15: searchKanji returns only with a body that is an array of non-null
\* objects, getKanjiDetail only with a body that is a non-null object and
\* no array; with any other body the function throws, and the call is over
\* with that response as its last attempt: nothing is pending or scheduled.
C15_ShapeValidated ==
    /\ apiResult = "returned" =>
          /\ call = "resolved"
          /\ ShapeFits(apiFn, responseData)
    /\ (call = "resolved" /\ ~ShapeFits(apiFn, responseData)) =>
          /\ apiResult = "threw"
          /\ Last(attempts) = Success
          /\ Len(attempts) = retryCount + 1

C15_Witness ==
    /\ apiFn = "searchKanji"
    /\ call = "resolved"
    /\ responseData = JsonArray(<<JsonObject(TRUE), JsonNull>>)
    /\ apiResult = "threw"
    /\ Len(attempts) = 2

(***************************************************************************)
(* Properties of handleShutdown.                                           *)
(***************************************************************************)
\* C16: when a shutdown is triggered, close is invoked on every session of
\* the registry and the process does not exit until every one of those
\* closures has settled: in the exited process no call of handleShutdown is
\* left with Promise.allSettled still awaited.
C16_ExitAfterAllSettled ==
    phase = "exited" => \A i \in 1..Len(shutdowns) : ~shutdowns[i]

\* C17: after a shutdown signal the process eventually exits, whatever the
\* closures do, one that never settles included.
C17_ShutdownTerminates == (phase = "closing") ~> (phase = "exited")

(***************************************************************************)
(* Properties of the inbound call boundary.                                *)
(***************************************************************************)
\* C18: a POST whose body is over 1 MB is answered 413 with a JSON-RPC
\* error object before any session logic: no lookup of the id, no session
\* created, no last access updated, no transport handed the call.
C18_OversizedRejectedFirst ==
    \A h \in HeaderInputs, body \in BodyInputs, size \in BodySizes \ {"within"} :
        /\ Rejected(postCall(h, body, size), 413, INVALID_REQUEST)
        /\ ~postCall(h, body, size).lookedUp
        /\ NoEffect(postCallRegistry(h, body, size))

\* the response of a suspended handler when the call it awaits rejects:
\* each handler's own catch block
failureAnswer(r) ==
    IF r.kind = "DELETE" THEN deleteAnswer(FALSE) ELSE handleRequestAnswer(FALSE)

\* C19: for POST, GET and DELETE, an exception raised inside the handler
\* after routing (a rejected c.req.json(), connect, handleRequest, or
\* transport.close() of a DELETE) is answered with a JSON-RPC error of code
\* -32603.
C19_ExceptionsAnsweredInternal ==
    /\ \A h \in HeaderInputs :
          post(h, "unparseable").path = "catch" =>
             post(h, "unparseable").answer.code = INTERNAL_ERROR
    /\ \A r \in Suspended :
          (r.kind = "DELETE" => ~r.closeOk) =>
             failureAnswer(r).code = INTERNAL_ERROR

\* C20: a POST whose payload cannot be parsed is a validation error: it is
\* answered with a 4xx status and a JSON-RPC error object, and reaches no
\* transport.
C20_UnparseableIsValidationError ==
    \A h \in HeaderInputs :
        /\ post(h, "unparseable").answer.status \in 400..499
        /\ post(h, "unparseable").answer.code # NoCode
        /\ post(h, "unparseable").transport = NoTransport

(***************************************************************************)
(* Properties of the response shim (ShimSpec).                             *)
(***************************************************************************)
\* C21: once end has been called on a shim, getResponse returns the same
\* status, headers and body for ever, whatever is called on the shim
\* afterwards.
C21_FinalizedIsImmutable == shim.finished => getResponse(shim) = atFinish

\* C22: in every state of a shim and for every chunk, end(chunk, ...)
\* captures the same response as write(chunk) followed by end(...) without
\* data; the body is what was written so far followed by the chunk, and a
\* callback given to end is invoked once in both forms.
C22_FinalizeWithDataSameAsSeparate ==
    \A data \in ChunkInputs, c \in EndCallbacks :
        LET together == end(shim, data, c[1], c[2])
            separate == end(write(shim, data), undefined, c[1], c[2])
        IN  /\ getResponse(together) = getResponse(separate)
            /\ getResponse(together).body
                  = getResponse(shim).body \o chunkText(data)
            /\ together.callbacks = separate.callbacks
            /\ together.callbacks - shim.callbacks
                  = IF Fn \in {c[1], c[2]} THEN 1 ELSE 0

C22_Witness ==
    /\ shim.finished
    /\ shim.finishEvents = 1
    /\ shim.callbacks = 1
    /\ shim.responseChunks = <<<<"a">>, <<"b", "e-acute">>>>
    /\ atFinish.body = <<"a", "b", "e-acute">>

\* C27: the handler returns the captured response only after the transport
\* has called end on the shim of that call.
C27_ResponseAfterFinalize ==
    (httpResponse # NoResponse /\ handled = "resolved") => shim.finished

(***************************************************************************)
(* Properties of the tools' error mapping (ClientSpec).                    *)
(***************************************************************************)
\* the parts of a message, as a set
Parts(text) == {text[i] : i \in 1..Len(text)}

\* C23: a tool whose outbound call failed returns a result with isError set
\* whose text is a fixed message for the statuses 404, 400, 429 and 5xx, for
\* the codes ECONNABORTED, ETIMEDOUT, ENOTFOUND and ECONNREFUSED, and for a
\* malformed response; for every other failed call the text is "API request
\* failed with status", the upstream status (or undefined) and the upstream
\* reason phrase (or Unknown error).  The text never holds the response
\* body or the API key.
C23_ErrorsMappedToSafeText ==
    (toolResult # NoToolResult /\ apiResult = "threw") =>
        /\ toolResult.isError
        /\ Parts(toolResult.text)
              \cap {"upstream body", "X-RapidAPI-Key value"} = {}
        /\ \/ toolResult.text \in FixedMessages
           \/ /\ call = "rejected"
              /\ surfaced.status \notin {400, 404, 429}
              /\ surfaced.status < 500
              /\ surfaced.code \notin {"ECONNABORTED", "ETIMEDOUT",
                                       "ENOTFOUND", "ECONNREFUSED"}
              /\ toolResult.text[1] = "API request failed with status "
              /\ toolResult.text[2]
                    = (IF surfaced.status = NoStatus THEN "undefined"
                       ELSE ToString(surfaced.status))
              /\ toolResult.text[4] \in (StatusTexts \ {""}) \cup {"Unknown error"}
        /\ (call = "resolved") => toolResult.text \in FixedMessages

C23_Witness ==
    /\ call = "rejected"
    /\ surfaced = HttpError(499)
    /\ toolResult = ToolResult(<<"API request failed with status ", "499",
                                 ": ", "Forbidden">>, TRUE)

\* C23 as stated: the text of every error result is one of the fixed
\* messages.
C23_AsStated ==
    (toolResult # NoToolResult /\ apiResult = "threw") =>
        /\ toolResult.isError
        /\ toolResult.text \in FixedMessages

(***************************************************************************)
(* Properties of the registry (Spec): hooks, sweep, the two maps, closes.  *)
(***************************************************************************)
\* C24: every transport constructed has its close hook from the state in
\* which it is constructed, so before connect and before handleRequest; and
\* a close of a registered session's transport that fires the hook leaves
\* the session in neither map.
C24_CloseHookBeforeHandoff ==
    /\ \A t \in 1..Len(transports) : transports[t].onclose
    /\ \A r \in Suspended :
          r.transport # NoTransport => transports[r.transport].onclose
    /\ \A id \in DOMAIN sessions :
          \A o \in {c \in CloseOutcomes : CloseRunsOnclose(c)} :
             LET reg == TransportClose(Current, sessions[id], o)
             IN  /\ id \notin DOMAIN reg.sessions
                 /\ id \notin DOMAIN reg.lastAccess

\* a registered transport has closed on its own account and its session is
\* gone, while another handler is still waiting on connect
C24_Witness ==
    /\ \E t \in 1..Len(transports) :
          /\ transports[t].sessionId # Undefined
          /\ transports[t].closeCalls = 1
          /\ transports[t].sessionId \notin DOMAIN sessions
          /\ transports[t].sessionId \notin deletedOk \cup swept
    /\ \E r \in Suspended : r.pc = "connecting"
    /\ phase = "running"

\* C25: one run of the sweep removes from both maps every session whose
\* last access is more than SESSION_TIMEOUT_MS before now, and leaves every
\* other session in both maps with its transport, its last access and the
\* count of closes of its transport as they were.
C25_SweepRemovesExactlyExpired ==
    [][Sweep =>
          \A id \in DOMAIN sessionLastAccess :
             IF now - sessionLastAccess[id] > SESSION_TIMEOUT_MS
             THEN /\ id \notin DOMAIN sessions'
                  /\ id \notin DOMAIN sessionLastAccess'
             ELSE /\ id \in DOMAIN sessions'
                  /\ sessions'[id] = sessions[id]
                  /\ sessionLastAccess'[id] = sessionLastAccess[id]
                  /\ transports'[sessions[id]].closeCalls
                        = transports[sessions[id]].closeCalls]_vars

\* the sweep has removed one session and kept another, whose last access is
\* exactly SESSION_TIMEOUT_MS old
C25_Witness ==
    /\ swept # {}
    /\ \E id \in DOMAIN sessions :
          /\ id \notin swept
          /\ now - sessionLastAccess[id] = SESSION_TIMEOUT_MS
          /\ transports[sessions[id]].closeCalls = 0
    /\ \E id \in swept : \E t \in TransportsOf(id) : transports[t].closeCalls = 1

\* C26: the session map and the last-access map hold the same ids in every
\* state.
C26_MapsHaveSameIds == DOMAIN sessions = DOMAIN sessionLastAccess

\* sessions were registered, one was closed by its transport, by DELETE or
\* by the sweep, and one is still there
C26_Witness ==
    /\ DOMAIN sessions # {}
    /\ uuidCalls = MaxSessions
    /\ Cardinality(DOMAIN sessions) < uuidCalls

\* C28: no two live sessions' transports are attached to the same protocol
\* server.
C28_ServerPerSession ==
    \A s1, s2 \in DOMAIN sessions :
        (s1 # s2 /\ transports[sessions[s1]].connected
                 /\ transports[sessions[s2]].connected)
           => ServerOf(sessions[s1]) # ServerOf(sessions[s2])

\* C29: close is invoked at most once on every transport.
C29_CloseAtMostOnce ==
    \A t \in 1..Len(transports) : transports[t].closeCalls <= 1

\* C30: when the process has exited, close has been invoked on the
\* transport of every session that was ever registered.
C30_EveryRegisteredSessionClosed ==
    phase = "exited" =>
        \A t \in 1..Len(transports) :
            transports[t].sessionId # Undefined => transports[t].closeCalls >= 1

====
